---- MODULE Spec2Model ----
(***************************************************************************)
(* Sprint lifecycle and constraint engine of the odoo_flow addon           *)
(* (models/sprint.py, models/project_task.py).                             *)
(*                                                                         *)
(* Records are kept as the ORM keeps them: a table of sprints and a table  *)
(* of tasks, keyed by integer id.  An unset reference or date is the       *)
(* falsy value False of the ORM, written None (0) here; ids, projects and  *)
(* dates start at 1.  One request is one transaction: a request that       *)
(* raises leaves both tables as they were.                                 *)
(*                                                                         *)
(* What the ORM does around the methods of the two files:                  *)
(*  - write(vals) assigns vals to every record of the recordset; a stored  *)
(*    computed field is recomputed when a field of its @api.depends is in  *)
(*    vals, never because the date changes;                                *)
(*  - an @api.constrains method runs over the written records when one of  *)
(*    its fields is in vals or has just been recomputed; on create all of  *)
(*    them run on the new record;                                          *)
(*  - a required field left empty is refused by the store.                 *)
(* The field name takes part in no rule and is not stored here: a write of *)
(* name alone is a write that touches no modelled field.                   *)
(*                                                                         *)
(* The onchange methods work on the record of an open form (forms), which  *)
(* is no row of a table.  Two callers of action_set_active at once are     *)
(* followed statement by statement (txns) against a read-committed store.  *)
(***************************************************************************)
EXTENDS Integers, FiniteSets, Sequences, TLC

VARIABLES sprints,   \* project.sprint table: id -> stored fields
          tasks,     \* project.task table: id -> project_id, sprint_id, date_deadline
          today,     \* fields.Date.context_today
          outcome,   \* how the last request ended: "ok" or "rejected"
          forms,     \* the records open in an edit form, not yet saved
          txns       \* the transactions begun on the store

vars == <<sprints, tasks, today, outcome, forms, txns>>

\* ---------------------------------------------------------------- bounds
MaxToday == 2     \* the calendar is followed from day 1 up to this day

None == 0
SprintIds == {1, 2}   \* ids of the sprints that can be created
TaskIds == {1}        \* ids of the tasks of the task table
Projects == {1, 2}    \* ids of the projects
Days == {1, 2}        \* the dates a caller passes

\* ------------------------------------------------------ program constants
MaxDurationDays == 28
DefaultDurationDays == 14

StateModes == {"auto", "manual"}
States == {"planned", "active", "done"}

\* project_id, start_date and end_date are declared required=True.
RequiredRefs == {"project_id", "start_date", "end_date"}
StateDepends == {"start_date", "end_date", "state_mode", "state_manual"}

\* ------------------------------------------------------------ _compute_state
\* Mutant: the end date itself is left out of the active range.
MutComputeState(sp, day) ==
    IF sp.state_mode = "manual" THEN sp.state_manual
    ELSE IF sp.start_date # None /\ day < sp.start_date THEN "planned"
    ELSE IF sp.start_date # None /\ sp.end_date # None
            /\ sp.start_date <= day /\ day < sp.end_date THEN "active"
    ELSE IF sp.end_date # None /\ day > sp.end_date THEN "done"
    ELSE "planned"

\* Mutant: in auto mode a sprint stored as done stays done.
MutComputeStateKeepsDone(sp, day) ==
    IF sp.state_mode = "manual" THEN sp.state_manual
    ELSE IF sp.state = "done" THEN "done"
    ELSE IF sp.start_date # None /\ day < sp.start_date THEN "planned"
    ELSE IF sp.start_date # None /\ sp.end_date # None
            /\ sp.start_date <= day /\ day <= sp.end_date THEN "active"
    ELSE IF sp.end_date # None /\ day > sp.end_date THEN "done"
    ELSE "planned"

ComputeState(sp, day) ==
    IF sp.state_mode = "manual" THEN sp.state_manual
    ELSE IF sp.start_date # None /\ day < sp.start_date THEN "planned"
    ELSE IF sp.start_date # None /\ sp.end_date # None
            /\ sp.start_date <= day /\ day <= sp.end_date THEN "active"
    ELSE IF sp.end_date # None /\ day > sp.end_date THEN "done"
    ELSE "planned"

\* ---------------------------------------------------------------- validators
\* Each Raises... is TRUE when the constraint method raises ValidationError
\* for the recordset recs over tables S (sprints) and T (tasks).
TaskIdsOf(T, s) == {t \in DOMAIN T : T[t].sprint_id = s}

RaisesTasksMatchProject(S, T, recs) ==
    \E s \in recs :
        /\ S[s].project_id # None
        /\ TaskIdsOf(T, s) # {}
        /\ \E t \in TaskIdsOf(T, s) : T[t].project_id # S[s].project_id

\* Mutant: the duration is taken without the closing day.
MutDurationAndOrder(S, recs) ==
    \E s \in recs :
        /\ S[s].start_date # None
        /\ S[s].end_date # None
        /\ \/ S[s].end_date < S[s].start_date
           \/ (S[s].end_date - S[s].start_date) > MaxDurationDays

RaisesDurationAndOrder(S, recs) ==
    \E s \in recs :
        /\ S[s].start_date # None
        /\ S[s].end_date # None
        /\ \/ S[s].end_date < S[s].start_date
           \/ (S[s].end_date - S[s].start_date) + 1 > MaxDurationDays

\* Mutant: only planned is refused for an ended sprint.
MutPastPlannedActive(S, recs, day) ==
    \E s \in recs :
        /\ S[s].start_date # None
        /\ S[s].end_date # None
        /\ S[s].state_mode = "manual"
        /\ S[s].end_date < day
        /\ S[s].state_manual = "planned"

RaisesPastPlannedActive(S, recs, day) ==
    \E s \in recs :
        /\ S[s].start_date # None
        /\ S[s].end_date # None
        /\ S[s].state_mode = "manual"
        /\ S[s].end_date < day
        /\ S[s].state_manual \in {"planned", "active"}

\* Mutant: the count looks at state_manual, not at the stored state.
MutAlreadyActive(S, recs) ==
    \E s \in recs :
        /\ S[s].state = "active"
        /\ \E o \in DOMAIN S :
              /\ S[o].project_id = S[s].project_id
              /\ S[o].state_manual = "active"
              /\ o # s

RaisesAlreadyActive(S, recs) ==
    \E s \in recs :
        /\ S[s].state = "active"
        /\ \E o \in DOMAIN S :
              /\ S[o].project_id = S[s].project_id
              /\ S[o].state = "active"
              /\ o # s

\* A required column left empty is refused by the store.
RaisesRequired(S, recs) ==
    \E s \in recs : \E f \in RequiredRefs : S[s][f] = None

\* ------------------------------------------------------------ ORM write path
Rejected(S, T) == [ok |-> FALSE, sprints |-> S, tasks |-> T]
Accepted(S, T) == [ok |-> TRUE, sprints |-> S, tasks |-> T]

\* Field assignment of vals (a function from field names to values) to a record.
Assign(rec, vals) ==
    [f \in DOMAIN rec |-> IF f \in DOMAIN vals THEN vals[f] ELSE rec[f]]

\* The constraint methods whose @api.constrains fields meet `touched`,
\* run over the written recordset.
RaisesConstraints(S, T, recs, touched, day) ==
    \/ /\ touched \cap {"project_id", "task_ids", "state"} # {}
       /\ RaisesTasksMatchProject(S, T, recs)
    \/ /\ touched \cap {"start_date", "end_date"} # {}
       /\ RaisesDurationAndOrder(S, recs)
    \/ /\ touched \cap {"start_date", "end_date", "state_mode", "state_manual"} # {}
       /\ RaisesPastPlannedActive(S, recs, day)
    \/ /\ touched \cap {"state", "project_id"} # {}
       /\ RaisesAlreadyActive(S, recs)

\* Mutant: the constraints run on the records as assigned, before the stored
\* state is recomputed.
MutOrmWriteChecksStaleState(S, T, recs, vals, day) ==
    LET recompute == DOMAIN vals \cap StateDepends # {}
        S1 == [s \in DOMAIN S |->
                 IF s \in recs THEN Assign(S[s], vals) ELSE S[s]]
        S2 == [s \in DOMAIN S |->
                 IF s \in recs /\ recompute
                 THEN [S1[s] EXCEPT !.state = ComputeState(S1[s], day)]
                 ELSE S1[s]]
        touched == DOMAIN vals \cup (IF recompute THEN {"state"} ELSE {})
    IN  IF RaisesRequired(S1, recs) \/ RaisesConstraints(S1, T, recs, touched, day)
        THEN Rejected(S, T)
        ELSE Accepted(S2, T)

\* models.Model.write on project.sprint (the super().write of the override):
\* assign vals to every record of recs, recompute the stored field state of
\* those records when one of its @api.depends fields is in vals, then run the
\* constraints of the written and the recomputed fields.
OrmWrite(S, T, recs, vals, day) ==
    LET recompute == DOMAIN vals \cap StateDepends # {}
        S1 == [s \in DOMAIN S |->
                 IF s \in recs THEN Assign(S[s], vals) ELSE S[s]]
        S2 == [s \in DOMAIN S |->
                 IF s \in recs /\ recompute
                 THEN [S1[s] EXCEPT !.state = ComputeState(S1[s], day)]
                 ELSE S1[s]]
        touched == DOMAIN vals \cup (IF recompute THEN {"state"} ELSE {})
    IN  IF RaisesRequired(S2, recs) \/ RaisesConstraints(S2, T, recs, touched, day)
        THEN Rejected(S, T)
        ELSE Accepted(S2, T)

\* Mutant: the guard looks for linked tasks only.
MutProjectGuardRaises(S, T, recs, vals) ==
    /\ "project_id" \in DOMAIN vals
    /\ \E s \in recs : TaskIdsOf(T, s) # {}

\* Mutant: the guard raises only when the project given differs from the
\* project of the sprint.
MutProjectGuardOnChange(S, T, recs, vals) ==
    /\ "project_id" \in DOMAIN vals
    /\ \E s \in recs :
          /\ vals.project_id # S[s].project_id
          /\ \/ TaskIdsOf(T, s) # {}
             \/ S[s].state \in {"active", "done"}

\* ProjectSprint.write: the project guard, then the ORM write.
ProjectGuardRaises(S, T, recs, vals) ==
    /\ "project_id" \in DOMAIN vals
    /\ \E s \in recs :
          \/ TaskIdsOf(T, s) # {}
          \/ S[s].state \in {"active", "done"}

SprintWrite(S, T, recs, vals, day) ==
    IF ProjectGuardRaises(S, T, recs, vals)
    THEN Rejected(S, T)
    ELSE OrmWrite(S, T, recs, vals, day)

\* models.Model.create on project.sprint: the new record takes the next id,
\* state_mode and state_manual take their defaults unless given, state is
\* computed, and every constraint runs on the new record.
SprintDefaults ==
    [project_id |-> None, start_date |-> None, end_date |-> None,
     state_mode |-> "auto", state_manual |-> "planned", state |-> "planned"]

NextSprintId(S) == Cardinality(DOMAIN S) + 1

SprintCreate(S, T, vals, day) ==
    LET id == NextSprintId(S)
        new == Assign(SprintDefaults, vals)
        S1 == [s \in DOMAIN S \cup {id} |->
                 IF s = id THEN [new EXCEPT !.state = ComputeState(new, day)]
                 ELSE S[s]]
    IN  IF RaisesRequired(S1, {id})
           \/ RaisesConstraints(S1, T, {id}, DOMAIN new, day)
        THEN Rejected(S, T)
        ELSE Accepted(S1, T)

\* ------------------------------------------------------------ button actions
\* action_set_auto: write state_mode, then the explicit _compute_state(),
\* whose assignment to the stored field is itself a write of state.
ExplicitComputeState(S, T, recs, day) ==
    IF recs = {} THEN Accepted(S, T)
    ELSE LET S1 == [s \in DOMAIN S |->
                      IF s \in recs
                      THEN [S[s] EXCEPT !.state = ComputeState(S[s], day)]
                      ELSE S[s]]
         IN  IF RaisesConstraints(S1, T, recs, {"state"}, day)
             THEN Rejected(S, T)
             ELSE Accepted(S1, T)

ActionSetAuto(S, T, recs, day) ==
    LET w == SprintWrite(S, T, recs, [state_mode |-> "auto"], day)
        c == ExplicitComputeState(w.sprints, w.tasks, recs, day)
    IN  IF w.ok /\ c.ok THEN c ELSE Rejected(S, T)

ActionSetPlanned(S, T, recs, day) ==
    SprintWrite(S, T, recs, [state_mode |-> "manual", state_manual |-> "planned"], day)

\* Mutant: set_active stores the three state fields past the validators.
MutActionSetActive(S, T, recs, day) ==
    Accepted([s \in DOMAIN S |->
                IF s \in recs
                THEN [S[s] EXCEPT !.state_mode = "manual",
                                  !.state_manual = "active",
                                  !.state = "active"]
                ELSE S[s]], T)

ActionSetActive(S, T, recs, day) ==
    SprintWrite(S, T, recs, [state_mode |-> "manual", state_manual |-> "active"], day)

\* Mutant: set_done writes state_manual and leaves state_mode.
MutActionSetDone(S, T, recs, day) ==
    SprintWrite(S, T, recs, [state_manual |-> "done"], day)

ActionSetDone(S, T, recs, day) ==
    SprintWrite(S, T, recs, [state_mode |-> "manual", state_manual |-> "done"], day)

\* --------------------------------------------------------------- project.task
\* _check_sprint_deadline_and_project over the recordset recs.
RaisesSprintDeadlineAndProject(S, T, recs) ==
    \E t \in recs :
        /\ T[t].sprint_id # None
        /\ \/ /\ T[t].project_id # None
              /\ S[T[t].sprint_id].project_id # None
              /\ T[t].project_id # S[T[t].sprint_id].project_id
           \/ /\ T[t].date_deadline # None
              /\ S[T[t].sprint_id].end_date # None
              /\ T[t].date_deadline > S[T[t].sprint_id].end_date

\* models.Model.write on project.task for the fields sprint_id,
\* date_deadline and project_id, all watched by the one constraint.
TaskWrite(S, T, recs, vals) ==
    LET T1 == [t \in DOMAIN T |->
                 IF t \in recs THEN Assign(T[t], vals) ELSE T[t]]
        touched == DOMAIN vals \cap {"sprint_id", "date_deadline", "project_id"}
    IN  IF touched # {} /\ RaisesSprintDeadlineAndProject(S, T1, recs)
        THEN Rejected(S, T)
        ELSE Accepted(S, T1)

\* ------------------------------------------------- _compute_task_select_ids
ComputeTaskSelectIds(T, s) == TaskIdsOf(T, s)

\* ------------------------------------------------- _inverse_task_select_ids
\* order is the recordset in iteration order, sel the selection written to
\* each of its records.
\* Mutant: the deselected tasks are never written.
RECURSIVE MutInverseLoopKeeps(_, _, _, _)
MutInverseLoopKeeps(S, T, order, sel) ==
    IF order = <<>> THEN Accepted(S, T)
    ELSE LET s == Head(order)
             to_add == sel \ TaskIdsOf(T, s)
             mismatched == {t \in to_add : T[t].project_id # S[s].project_id}
             added == TaskWrite(S, T, to_add, [sprint_id |-> s])
         IN  IF S[s].project_id = None THEN Rejected(S, T)
             ELSE IF mismatched # {} THEN Rejected(S, T)
             ELSE IF ~added.ok THEN Rejected(S, T)
             ELSE MutInverseLoopKeeps(S, added.tasks, Tail(order), sel)

\* Mutant: the projects of the tasks to add are not compared with the
\* project of the sprint.
RECURSIVE MutInverseLoopAnyProject(_, _, _, _)
MutInverseLoopAnyProject(S, T, order, sel) ==
    IF order = <<>> THEN Accepted(S, T)
    ELSE LET s == Head(order)
             to_add == sel \ TaskIdsOf(T, s)
             to_remove == TaskIdsOf(T, s) \ sel
             added == TaskWrite(S, T, to_add, [sprint_id |-> s])
             removed == TaskWrite(S, added.tasks, to_remove, [sprint_id |-> None])
         IN  IF S[s].project_id = None THEN Rejected(S, T)
             ELSE IF ~added.ok \/ ~removed.ok THEN Rejected(S, T)
             ELSE MutInverseLoopAnyProject(S, removed.tasks, Tail(order), sel)

RECURSIVE InverseLoop(_, _, _, _)
InverseLoop(S, T, order, sel) ==
    IF order = <<>> THEN Accepted(S, T)
    ELSE LET s == Head(order)
             to_add == sel \ TaskIdsOf(T, s)
             to_remove == TaskIdsOf(T, s) \ sel
             mismatched == {t \in to_add : T[t].project_id # S[s].project_id}
             added == TaskWrite(S, T, to_add, [sprint_id |-> s])
             removed == TaskWrite(S, added.tasks, to_remove, [sprint_id |-> None])
         IN  IF S[s].project_id = None THEN Rejected(S, T)
             ELSE IF mismatched # {} THEN Rejected(S, T)
             ELSE IF ~added.ok \/ ~removed.ok THEN Rejected(S, T)
             ELSE InverseLoop(S, removed.tasks, Tail(order), sel)

\* Mutant: what the loop wrote before it raised is kept.
MutInverseKeepsPartial(S, T, order, sel) == InverseLoop(S, T, order, sel)

InverseTaskSelectIds(S, T, order, sel) ==
    LET r == InverseLoop(S, T, order, sel)
    IN  IF r.ok THEN r ELSE Rejected(S, T)

\* ------------------------------------------------------------ edit forms
\* The onchange methods work on the record of the open form; nothing is
\* stored until the form is saved by a create or a write.

\* Mutant: the default end date is a whole longest sprint after the start.
MutOnchangeStartDateLongDefault(rec) ==
    IF rec.start_date # None /\ rec.end_date = None
    THEN [rec EXCEPT !.end_date = rec.start_date + MaxDurationDays]
    ELSE rec

\* _onchange_start_date_set_default_end
OnchangeStartDateSetDefaultEnd(rec) ==
    IF rec.start_date # None /\ rec.end_date = None
    THEN [rec EXCEPT !.end_date = rec.start_date + DefaultDurationDays]
    ELSE rec

\* _onchange_recompute_state
OnchangeRecomputeState(rec, day) == [rec EXCEPT !.state = ComputeState(rec, day)]

\* Mutant: the deadline is taken from the sprint also when the task has one.
MutOnchangeSprintIdOverwrites(S, rec) ==
    IF rec.sprint_id # None /\ S[rec.sprint_id].end_date # None
    THEN [rec EXCEPT !.date_deadline = S[rec.sprint_id].end_date]
    ELSE rec

\* _onchange_sprint_id
OnchangeSprintId(S, rec) ==
    IF /\ rec.sprint_id # None
       /\ rec.date_deadline = None
       /\ S[rec.sprint_id].end_date # None
    THEN [rec EXCEPT !.date_deadline = S[rec.sprint_id].end_date]
    ELSE rec

\* ------------------------------------------------------------------- inputs
\* Values a caller passes.  A create or write that leaves a required field
\* empty is among them.
CompleteCreateVals ==
    { [project_id |-> p, start_date |-> a, end_date |-> b,
       state_mode |-> m, state_manual |-> x] :
        p \in Projects, a \in Days, b \in Days, m \in StateModes, x \in States }

DefaultCreateVals ==
    { [project_id |-> p, start_date |-> a, end_date |-> b] :
        p \in Projects, a \in Days, b \in Days }

IncompleteCreateVals ==
    { [start_date |-> 1, end_date |-> 1],
      [project_id |-> 1, end_date |-> 1],
      [project_id |-> 1, start_date |-> 1] }

DateVals ==
    { [start_date |-> a] : a \in Days \cup {None} }
    \cup { [end_date |-> b] : b \in Days \cup {None} }
    \cup { [start_date |-> a, end_date |-> b] : a \in Days, b \in Days }

ModeVals ==
    { [state_mode |-> m] : m \in StateModes }
    \cup { [state_manual |-> x] : x \in States }
    \cup { [state_mode |-> m, state_manual |-> x] : m \in StateModes, x \in States }

ProjectVals ==
    { [name |-> "n"] }
    \cup { [project_id |-> p] : p \in Projects \cup {None} }
    \cup { [project_id |-> p, end_date |-> b] : p \in Projects, b \in Days }

TaskVals(S) ==
    { [sprint_id |-> s] : s \in DOMAIN S \cup {None} }
    \cup { [date_deadline |-> d] : d \in Days \cup {None} }
    \cup { [project_id |-> p] : p \in Projects \cup {None} }
    \cup { [sprint_id |-> s, project_id |-> p] : s \in DOMAIN S, p \in Projects }

Recordsets(ids) == SUBSET ids \ {{}}

Orders(ids) ==
    { <<s>> : s \in ids }
    \cup { q \in { <<s, o>> : s \in ids, o \in ids } : q[1] # q[2] }

\* The dates typed into a form: two early days and the days the default
\* duration after them.
FormDays == {1, 2, 1 + DefaultDurationDays, 2 + DefaultDurationDays}

\* ------------------------------------------------------------------ requests
TaskDefaults == [project_id |-> None, sprint_id |-> None, date_deadline |-> None]

TxnIds == {1, 2}

Reply(r) ==
    /\ sprints' = r.sprints
    /\ tasks' = r.tasks
    /\ outcome' = IF r.ok THEN "ok" ELSE "rejected"
    /\ UNCHANGED <<today, forms, txns>>

CreateSprint(valset) ==
    /\ NextSprintId(sprints) \in SprintIds
    /\ \E vals \in valset : Reply(SprintCreate(sprints, tasks, vals, today))

WriteSprint(valset) ==
    \E recs \in Recordsets(DOMAIN sprints), vals \in valset :
        Reply(SprintWrite(sprints, tasks, recs, vals, today))

SetAuto ==
    \E recs \in Recordsets(DOMAIN sprints) :
        Reply(ActionSetAuto(sprints, tasks, recs, today))

SetPlanned ==
    \E recs \in Recordsets(DOMAIN sprints) :
        Reply(ActionSetPlanned(sprints, tasks, recs, today))

SetActive ==
    \E recs \in Recordsets(DOMAIN sprints) :
        Reply(ActionSetActive(sprints, tasks, recs, today))

SetDone ==
    \E recs \in Recordsets(DOMAIN sprints) :
        Reply(ActionSetDone(sprints, tasks, recs, today))

WriteTask ==
    \E recs \in Recordsets(DOMAIN tasks), vals \in TaskVals(sprints) :
        Reply(TaskWrite(sprints, tasks, recs, vals))

SelectTasks ==
    \E order \in Orders(DOMAIN sprints), sel \in SUBSET DOMAIN tasks :
        Reply(InverseTaskSelectIds(sprints, tasks, order, sel))

\* The calendar day changes between requests; nothing is written.
Tick ==
    /\ today < MaxToday
    /\ today' = today + 1
    /\ UNCHANGED <<sprints, tasks, outcome, forms, txns>>

\* A form is opened on a new record or on a stored one; one form is open at
\* a time.
OpenSprintForm ==
    /\ \E rec \in {SprintDefaults} \cup {sprints[s] : s \in DOMAIN sprints} :
          forms' = {[kind |-> "sprint", rec |-> rec]}
    /\ UNCHANGED <<sprints, tasks, today, outcome, txns>>

OpenTaskForm ==
    /\ \E rec \in {TaskDefaults} \cup {tasks[t] : t \in DOMAIN tasks} :
          forms' = {[kind |-> "task", rec |-> rec]}
    /\ UNCHANGED <<sprints, tasks, today, outcome, txns>>

\* The user sets or clears the start date: both onchange methods of
\* start_date run, the default end date first, then the state.
EditStartDate ==
    /\ \E f \in forms, d \in FormDays \cup {None} :
          /\ f.kind = "sprint"
          /\ forms' = {[f EXCEPT !.rec =
                          OnchangeRecomputeState(
                             OnchangeStartDateSetDefaultEnd(
                                [@ EXCEPT !.start_date = d]),
                             today)]}
    /\ UNCHANGED <<sprints, tasks, today, outcome, txns>>

EditEndDate ==
    /\ \E f \in forms, d \in FormDays \cup {None} :
          /\ f.kind = "sprint"
          /\ forms' = {[f EXCEPT !.rec =
                          OnchangeRecomputeState([@ EXCEPT !.end_date = d], today)]}
    /\ UNCHANGED <<sprints, tasks, today, outcome, txns>>

\* The user picks or clears the sprint of the task: _onchange_sprint_id runs.
EditTaskSprint ==
    /\ \E f \in forms, s \in DOMAIN sprints \cup {None} :
          /\ f.kind = "task"
          /\ forms' = {[f EXCEPT !.rec =
                          OnchangeSprintId(sprints, [@ EXCEPT !.sprint_id = s])]}
    /\ UNCHANGED <<sprints, tasks, today, outcome, txns>>

\* date_deadline has no onchange method in this addon.
EditTaskDeadline ==
    /\ \E f \in forms, d \in FormDays \cup {None} :
          /\ f.kind = "task"
          /\ forms' = {[f EXCEPT !.rec = [@ EXCEPT !.date_deadline = d]]}
    /\ UNCHANGED <<sprints, tasks, today, outcome, txns>>

\* ---------------------------------------------- concurrent action_set_active
\* A transaction runs action_set_active on one sprint against the store in
\* three statements.  Under read-committed isolation a statement reads what
\* is committed when it runs, together with what its own transaction wrote;
\* the row a transaction has written is locked until the transaction ends.
\* The addon takes no other lock and declares no unique constraint.
TxnRunning(i) == \E t \in txns : t.id = i /\ t.pc \in {"written", "checked"}

\* The row of its sprint as transaction t has written it:
\* self.write({"state_mode": "manual", "state_manual": "active"}) and the
\* recompute of state.  The committed row stays as it is while locked.
TxnRow(t) ==
    LET a == Assign(sprints[t.sprint],
                    [state_mode |-> "manual", state_manual |-> "active"])
    IN  [a EXCEPT !.state = ComputeState(a, today)]

\* action_set_active starts: the row is updated inside the transaction.
TxnWrite(i) ==
    /\ ~TxnRunning(i)
    /\ \E s \in DOMAIN sprints :
          /\ \A t \in txns : TxnRunning(t.id) => t.sprint # s
          /\ txns' = {t \in txns : t.id # i}
                        \cup {[id |-> i, pc |-> "written", sprint |-> s]}
    /\ UNCHANGED <<sprints, tasks, today, outcome, forms>>

\* The constraints of the written and recomputed fields, search_count
\* included, read the committed table with the transaction's own row.
TxnCheck(i) ==
    /\ \E t \in txns :
          /\ t.id = i
          /\ t.pc = "written"
          /\ LET view == [sprints EXCEPT ![t.sprint] = TxnRow(t)]
                 raises == RaisesConstraints(view, tasks, {t.sprint},
                              {"state_mode", "state_manual", "state"}, today)
             IN  /\ txns' = (txns \ {t}) \cup
                       {[t EXCEPT !.pc = IF raises THEN "aborted" ELSE "checked"]}
                 /\ outcome' = IF raises THEN "rejected" ELSE outcome
    /\ UNCHANGED <<sprints, tasks, today, forms>>

TxnCommit(i) ==
    /\ \E t \in txns :
          /\ t.id = i
          /\ t.pc = "checked"
          /\ sprints' = [sprints EXCEPT ![t.sprint] = TxnRow(t)]
          /\ txns' = (txns \ {t}) \cup {[t EXCEPT !.pc = "committed"]}
    /\ outcome' = "ok"
    /\ UNCHANGED <<tasks, today, forms>>

\* ------------------------------------------------------------ specifications
\* SpecLife: the sprint table alone under every sprint request.  Tasks only
\* add rejections to sprint requests (the project guard and
\* _check_tasks_match_project), so every sprint table reachable with tasks
\* is reachable here.
InitLife ==
    /\ sprints = << >>
    /\ tasks = << >>
    /\ today = 1
    /\ outcome = "ok"
    /\ forms = {}
    /\ txns = {}

LifeCreateVals == CompleteCreateVals \cup IncompleteCreateVals
LifeWriteVals == DateVals \cup ModeVals \cup ProjectVals

NextLife ==
    \/ CreateSprint(LifeCreateVals)
    \/ WriteSprint(LifeWriteVals)
    \/ SetAuto
    \/ SetPlanned
    \/ SetActive
    \/ SetDone
    \/ Tick

SpecLife == InitLife /\ [][NextLife]_vars

\* SpecMode: the sprint table under creates of complete sprints, writes of
\* the dates and of the state fields, the four buttons and the calendar.
\* It reaches the same sprint tables as SpecLife.
ModeWriteVals == DateVals \cup ModeVals

NextMode ==
    \/ CreateSprint(CompleteCreateVals)
    \/ WriteSprint(ModeWriteVals)
    \/ SetAuto
    \/ SetPlanned
    \/ SetActive
    \/ SetDone
    \/ Tick

SpecMode == InitLife /\ [][NextMode]_vars

\* SpecBind: sprints in auto mode bound to tasks.
InitBind ==
    /\ sprints = << >>
    /\ tasks = [t \in TaskIds |-> TaskDefaults]
    /\ today = 1
    /\ outcome = "ok"
    /\ forms = {}
    /\ txns = {}

BindWriteVals == DateVals \cup ProjectVals

NextBind ==
    \/ CreateSprint(DefaultCreateVals)
    \/ WriteSprint(BindWriteVals)
    \/ WriteTask
    \/ SelectTasks
    \/ Tick

SpecBind == InitBind /\ [][NextBind]_vars

\* SpecDur: sprints in auto mode with dates up to two days past the longest
\* allowed duration.
LongDays == {1, 2, MaxDurationDays, MaxDurationDays + 1, MaxDurationDays + 2}

LongCreateVals ==
    { [project_id |-> p, start_date |-> a, end_date |-> b] :
        p \in Projects, a \in LongDays, b \in LongDays }

LongDateVals ==
    { [start_date |-> a] : a \in LongDays }
    \cup { [end_date |-> b] : b \in LongDays }
    \cup { [start_date |-> a, end_date |-> b] : a \in LongDays, b \in LongDays }

NextDur ==
    \/ CreateSprint(LongCreateVals)
    \/ WriteSprint(LongDateVals)
    \/ Tick

SpecDur == InitLife /\ [][NextDur]_vars

\* SpecSelect: three tasks without deadlines and sprints planned for day 2,
\* under task writes of sprint_id and project_id and the task selection.
SelectTaskIds == {1, 2, 3}

SelectCreateVals ==
    { [project_id |-> p, start_date |-> 2, end_date |-> 2] : p \in Projects }

LinkVals(S) ==
    { [sprint_id |-> s] : s \in DOMAIN S \cup {None} }
    \cup { [project_id |-> p] : p \in Projects \cup {None} }

WriteTaskLink ==
    \E recs \in Recordsets(DOMAIN tasks), vals \in LinkVals(sprints) :
        Reply(TaskWrite(sprints, tasks, recs, vals))

InitSelect ==
    /\ sprints = << >>
    /\ tasks = [t \in SelectTaskIds |-> TaskDefaults]
    /\ today = 1
    /\ outcome = "ok"
    /\ forms = {}
    /\ txns = {}

NextSelect ==
    \/ CreateSprint(SelectCreateVals)
    \/ WriteTaskLink
    \/ SelectTasks

SpecSelect == InitSelect /\ [][NextSelect]_vars

\* SpecForm: the edit forms of a sprint and of a task over a table of
\* sprints in auto mode.
NextForm ==
    \/ CreateSprint(DefaultCreateVals)
    \/ OpenSprintForm
    \/ EditStartDate
    \/ EditEndDate
    \/ OpenTaskForm
    \/ EditTaskSprint
    \/ EditTaskDeadline

SpecForm == InitBind /\ [][NextForm]_vars

\* SpecTxn: two transactions activating sprints of a table of sprints in
\* auto mode; the sprints are created while no transaction is running.
CreateSprintAlone ==
    /\ \A i \in TxnIds : ~TxnRunning(i)
    /\ CreateSprint(DefaultCreateVals)

NextTxn ==
    \/ CreateSprintAlone
    \/ \E i \in TxnIds : TxnWrite(i)
    \/ \E i \in TxnIds : TxnCheck(i)
    \/ \E i \in TxnIds : TxnCommit(i)

SpecTxn == InitLife /\ [][NextTxn]_vars

\* =================================================================== claims
ActiveSprintsOf(p) ==
    {s \in DOMAIN sprints :
        sprints[s].project_id = p /\ sprints[s].state = "active"}

\* C1: in every reachable state each project has at most one sprint whose
\* stored state is active; a request that would leave a second one active
\* is rejected, so it never shows in the table.
C1_OneActivePerProject ==
    \A p \in Projects : Cardinality(ActiveSprintsOf(p)) <= 1

\* C1 witness: the last request was rejected, a sprint is active, and
\* set_active on another sprint of the same project, not yet ended, is
\* rejected here.
C1_Witness ==
    /\ outcome = "rejected"
    /\ \E s \in DOMAIN sprints, o \in DOMAIN sprints :
          /\ s # o
          /\ sprints[s].project_id = sprints[o].project_id
          /\ sprints[s].state = "active"
          /\ sprints[o].state # "active"
          /\ sprints[o].end_date >= today
          /\ ~ActionSetActive(sprints, tasks, {o}, today).ok

Duration(sp) == (sp.end_date - sp.start_date) + 1

\* C5: every stored sprint has start_date <= end_date and lasts at most 28
\* days, and a create or a write of dates that would break either bound is
\* rejected; 28 days pass, 29 do not.
C5_DurationAndOrder ==
    /\ \A s \in DOMAIN sprints :
          /\ sprints[s].start_date <= sprints[s].end_date
          /\ Duration(sprints[s]) <= 28
    /\ \A vals \in LongCreateVals :
          LET r == SprintCreate(sprints, tasks, vals, today)
          IN  (vals.end_date < vals.start_date \/ Duration(vals) > 28) => ~r.ok
    /\ \A recs \in Recordsets(DOMAIN sprints), vals \in LongDateVals :
          LET r == SprintWrite(sprints, tasks, recs, vals, today)
              after == [s \in recs |-> Assign(sprints[s], vals)]
          IN  (\E s \in recs : \/ after[s].end_date < after[s].start_date
                               \/ Duration(after[s]) > 28)
              => (~r.ok /\ r.sprints = sprints)

\* C5 witness: a sprint of exactly 28 days is stored, and the write that
\* would make it 29 days long is rejected.
C5_Witness ==
    \E s \in DOMAIN sprints :
        /\ Duration(sprints[s]) = 28
        /\ sprints[s].end_date + 1 \in LongDays
        /\ ~SprintWrite(sprints, tasks, {s},
                        [end_date |-> sprints[s].end_date + 1], today).ok
        /\ outcome = "rejected"

\* C2 (as claimed): every task with a sprint and a deadline has its deadline
\* on or before the end date of its sprint, after whatever request.
C2_DeadlineWithinSprint ==
    \A t \in DOMAIN tasks :
        (tasks[t].sprint_id # None /\ tasks[t].date_deadline # None)
        => tasks[t].date_deadline <= sprints[tasks[t].sprint_id].end_date

\* A task write that assigns a sprint of another project to task t.
AssignsSprintOfOtherProject(t, vals) ==
    /\ "sprint_id" \in DOMAIN vals
    /\ vals.sprint_id # None
    /\ Assign(tasks[t], vals).project_id # None
    /\ Assign(tasks[t], vals).project_id # sprints[vals.sprint_id].project_id

\* A task write that changes the project of task t, which stays in its sprint.
ChangesProjectInSprint(t, vals) ==
    /\ "project_id" \in DOMAIN vals
    /\ "sprint_id" \notin DOMAIN vals
    /\ tasks[t].sprint_id # None
    /\ vals.project_id # tasks[t].project_id

\* C3 (as claimed): a task with a sprint and a project has the project of
\* its sprint, and a task write that assigns a sprint of another project,
\* or changes the project of a task that is in a sprint, is rejected.
C3_TaskProjectMatchesSprint ==
    /\ \A t \in DOMAIN tasks :
          (/\ tasks[t].sprint_id # None
           /\ tasks[t].project_id # None
           /\ sprints[tasks[t].sprint_id].project_id # None)
          => tasks[t].project_id = sprints[tasks[t].sprint_id].project_id
    /\ \A recs \in Recordsets(DOMAIN tasks), vals \in TaskVals(sprints) :
          (\E t \in recs : \/ AssignsSprintOfOtherProject(t, vals)
                           \/ ChangesProjectInSprint(t, vals))
          => ~TaskWrite(sprints, tasks, recs, vals).ok

\* C4 (as claimed): every task of a sprint has the project of the sprint,
\* a task without project counting as a task of another project.
C4_SprintTasksShareProject ==
    \A t \in DOMAIN tasks :
        tasks[t].sprint_id # None
        => tasks[t].project_id = sprints[tasks[t].sprint_id].project_id

PastPlannedActive(sp, day) ==
    /\ sp.state_mode = "manual"
    /\ sp.end_date < day
    /\ sp.state_manual \in {"planned", "active"}

\* C6 (as claimed): after every successful request on a sprint, whatever
\* fields it writes, no sprint is in manual mode, ended, and planned or
\* active.
C6_NoPastPlannedActiveAfterAnyWrite ==
    [][(today' = today /\ outcome' = "ok")
        => \A s \in DOMAIN sprints' : ~PastPlannedActive(sprints'[s], today')]_vars

\* C6 (amended): after every successful create, button action, or write
\* whose values hold start_date, end_date, state_mode or state_manual, no
\* sprint created or written by it is in manual mode, ended, and planned or
\* active.
C6_NoPastPlannedActiveWhenWritten ==
    /\ \A vals \in LifeCreateVals :
          LET r == SprintCreate(sprints, tasks, vals, today)
          IN  r.ok => ~PastPlannedActive(r.sprints[NextSprintId(sprints)], today)
    /\ \A recs \in Recordsets(DOMAIN sprints) :
          /\ \A vals \in LifeWriteVals :
                LET r == SprintWrite(sprints, tasks, recs, vals, today)
                IN  (r.ok /\ DOMAIN vals \cap StateDepends # {})
                    => \A s \in recs : ~PastPlannedActive(r.sprints[s], today)
          /\ \A r \in {ActionSetAuto(sprints, tasks, recs, today),
                       ActionSetPlanned(sprints, tasks, recs, today),
                       ActionSetActive(sprints, tasks, recs, today),
                       ActionSetDone(sprints, tasks, recs, today)} :
                r.ok => \A s \in recs : ~PastPlannedActive(r.sprints[s], today)

\* C6 witness: a sprint has ended, set_planned on it has just been rejected
\* and would be again, while set_done passes.
C6_Witness ==
    /\ outcome = "rejected"
    /\ \E s \in DOMAIN sprints :
          /\ sprints[s].end_date < today
          /\ ~ActionSetPlanned(sprints, tasks, {s}, today).ok
          /\ ActionSetDone(sprints, tasks, {s}, today).ok

ProjectLocked(s) ==
    \/ TaskIdsOf(tasks, s) # {}
    \/ sprints[s].state \in {"active", "done"}

C7_RejectsChange ==
    \A recs \in Recordsets(DOMAIN sprints), vals \in BindWriteVals :
        LET r == SprintWrite(sprints, tasks, recs, vals, today)
        IN  (/\ "project_id" \in DOMAIN vals
             /\ \E s \in recs : /\ ProjectLocked(s)
                                /\ vals.project_id # sprints[s].project_id)
            => (~r.ok /\ r.sprints = sprints /\ r.tasks = tasks)

C7_KeepsProject ==
    \A s \in DOMAIN sprints :
        ProjectLocked(s) => sprints'[s].project_id = sprints[s].project_id

\* C7: a write that changes the project of a sprint with a linked task, or
\* whose stored state is active or done, is rejected and leaves both tables
\* as they were; and no step of any request changes the project of such a
\* sprint.
C7_ProjectImmutable == []C7_RejectsChange /\ [][C7_KeepsProject]_vars

\* C7 witness: the last request was rejected, a sprint holds a task, and
\* the write of the other project to it is rejected.
C7_Witness ==
    /\ outcome = "rejected"
    /\ \E s \in DOMAIN sprints, p \in Projects :
          /\ TaskIdsOf(tasks, s) # {}
          /\ sprints[s].state = "planned"
          /\ p # sprints[s].project_id
          /\ ~SprintWrite(sprints, tasks, {s}, [project_id |-> p], today).ok

\* The derivation the claims state: state_manual in manual mode; by the
\* dates otherwise, planned when a date is missing.
Derive(sp, day) ==
    IF sp.state_mode = "manual" THEN sp.state_manual
    ELSE IF sp.start_date = None \/ sp.end_date = None THEN "planned"
    ELSE IF day < sp.start_date THEN "planned"
    ELSE IF day <= sp.end_date THEN "active"
    ELSE "done"

\* C8: right after a successful create, or a successful write (button
\* actions included) whose values hold start_date, end_date, state_mode or
\* state_manual, the stored state of each sprint it wrote is the derivation
\* of its new fields and the current date.
C8_StateDerivedOnWrite ==
    /\ \A vals \in LifeCreateVals :
          LET r == SprintCreate(sprints, tasks, vals, today)
              id == NextSprintId(sprints)
          IN  r.ok => r.sprints[id].state = Derive(r.sprints[id], today)
    /\ \A recs \in Recordsets(DOMAIN sprints) :
          /\ \A vals \in LifeWriteVals :
                LET r == SprintWrite(sprints, tasks, recs, vals, today)
                IN  (r.ok /\ DOMAIN vals \cap StateDepends # {})
                    => \A s \in recs :
                          r.sprints[s].state = Derive(r.sprints[s], today)
          /\ \A r \in {ActionSetAuto(sprints, tasks, recs, today),
                       ActionSetPlanned(sprints, tasks, recs, today),
                       ActionSetActive(sprints, tasks, recs, today),
                       ActionSetDone(sprints, tasks, recs, today)} :
                r.ok => \A s \in recs :
                           r.sprints[s].state = Derive(r.sprints[s], today)

\* C8 witness: after the calendar moved on, a successful request left an
\* auto-mode sprint active on a day inside its dates, one done after its
\* end date and none with a stale state.
C8_Witness ==
    /\ outcome = "ok"
    /\ today > 1
    /\ \A s \in DOMAIN sprints : sprints[s].state = Derive(sprints[s], today)
    /\ \E s \in DOMAIN sprints, o \in DOMAIN sprints :
          /\ sprints[s].state_mode = "auto" /\ sprints[s].state = "active"
          /\ sprints[s].start_date = today
          /\ sprints[o].state_mode = "auto" /\ sprints[o].state = "done"

\* C9 (as claimed): the state of an auto-mode sprint is at every moment the
\* derivation of its dates and the current date.
C9_AutoStateFollowsCalendar ==
    \A s \in DOMAIN sprints :
        sprints[s].state_mode = "auto"
        => sprints[s].state = Derive(sprints[s], today)

SameDatesAndProject(a, b) ==
    /\ a.start_date = b.start_date
    /\ a.end_date = b.end_date
    /\ a.project_id = b.project_id

SetManualPost(r, recs, target) ==
    r.ok => \A s \in recs :
               /\ r.sprints[s].state_mode = "manual"
               /\ r.sprints[s].state_manual = target
               /\ r.sprints[s].state = target
               /\ SameDatesAndProject(r.sprints[s], sprints[s])

\* C10: a successful set_planned, set_active or set_done leaves the sprint
\* in manual mode with state_manual = state = the target and its dates and
\* project as they were; a successful set_auto leaves it in auto mode with
\* state_manual as it was and state the derivation of its dates and the
\* current date.
C10_ButtonActions ==
    \A recs \in Recordsets(DOMAIN sprints) :
        /\ SetManualPost(ActionSetPlanned(sprints, tasks, recs, today), recs, "planned")
        /\ SetManualPost(ActionSetActive(sprints, tasks, recs, today), recs, "active")
        /\ SetManualPost(ActionSetDone(sprints, tasks, recs, today), recs, "done")
        /\ LET r == ActionSetAuto(sprints, tasks, recs, today)
           IN  r.ok => \A s \in recs :
                  /\ r.sprints[s].state_mode = "auto"
                  /\ r.sprints[s].state_manual = sprints[s].state_manual
                  /\ r.sprints[s].state =
                        Derive([sprints[s] EXCEPT !.state_mode = "auto"], today)

\* C10 witness: after a successful request a sprint in auto mode keeps
\* state_manual = done while its state follows the dates, next to a sprint
\* held done in manual mode before its start date.
C10_Witness ==
    /\ outcome = "ok"
    /\ \E s \in DOMAIN sprints, o \in DOMAIN sprints :
          /\ sprints[s].state_mode = "auto"
          /\ sprints[s].state_manual = "done"
          /\ sprints[s].state = "active"
          /\ sprints[o].state_mode = "manual"
          /\ sprints[o].state = "done"
          /\ today < sprints[o].start_date

\* Another sprint of the project of s is stored as active.
OtherActive(s) ==
    \E o \in DOMAIN sprints :
        /\ o # s
        /\ sprints[o].project_id = sprints[s].project_id
        /\ sprints[o].state = "active"

RefusedUnchanged(r) == ~r.ok /\ r.sprints = sprints /\ r.tasks = tasks

\* C11: no button action passes the validators by.  set_active on a sprint
\* whose project has another active sprint is rejected; set_planned and
\* set_active on a sprint whose end_date is before today are rejected;
\* set_auto on a sprint whose dates hold today while another sprint of the
\* project, not written by the same action, is active is rejected; and a rejected action leaves state_mode,
\* state_manual and state of every sprint as they were.
C11_ActionsPassValidators ==
    \A recs \in Recordsets(DOMAIN sprints) :
        LET auto == ActionSetAuto(sprints, tasks, recs, today)
            planned == ActionSetPlanned(sprints, tasks, recs, today)
            active == ActionSetActive(sprints, tasks, recs, today)
            done == ActionSetDone(sprints, tasks, recs, today)
        IN  /\ (\E s \in recs : OtherActive(s)) => RefusedUnchanged(active)
            /\ (\E s \in recs : sprints[s].end_date < today)
                  => (RefusedUnchanged(planned) /\ RefusedUnchanged(active))
            /\ (\E s \in recs :
                   /\ \E o \in DOMAIN sprints \ recs :
                         /\ sprints[o].project_id = sprints[s].project_id
                         /\ sprints[o].state = "active"
                   /\ sprints[s].start_date <= today
                   /\ today <= sprints[s].end_date)
                  => RefusedUnchanged(auto)
            /\ \A r \in {auto, planned, active, done} :
                  ~r.ok => \A s \in DOMAIN sprints :
                              /\ r.sprints[s].state_mode = sprints[s].state_mode
                              /\ r.sprints[s].state_manual = sprints[s].state_manual
                              /\ r.sprints[s].state = sprints[s].state

\* C11 witness: the last request was rejected; a sprint held planned in
\* manual mode, with today inside its dates, stands next to the active
\* sprint of its project: set_active and set_auto on it are rejected and
\* set_done is accepted.
C11_Witness ==
    /\ outcome = "rejected"
    /\ \E s \in DOMAIN sprints :
          /\ OtherActive(s)
          /\ sprints[s].state_mode = "manual"
          /\ sprints[s].state = "planned"
          /\ sprints[s].start_date <= today
          /\ today <= sprints[s].end_date
          /\ ~ActionSetActive(sprints, tasks, {s}, today).ok
          /\ ~ActionSetAuto(sprints, tasks, {s}, today).ok
          /\ ActionSetDone(sprints, tasks, {s}, today).ok

\* C12: after a successful write of the selection sel to one sprint s, the
\* task set of s is exactly sel: the tasks of sel point to s (those taken
\* from another sprint have left its task set), the tasks that pointed to s
\* and are not in sel point to no sprint, every other task is as it was, and
\* no task changed project or deadline.
C12_SelectionApplied ==
    \A s \in DOMAIN sprints, sel \in SUBSET DOMAIN tasks :
        LET r == InverseTaskSelectIds(sprints, tasks, <<s>>, sel)
            old == TaskIdsOf(tasks, s)
        IN  r.ok =>
              /\ ComputeTaskSelectIds(r.tasks, s) = sel
              /\ \A t \in sel : r.tasks[t].sprint_id = s
              /\ \A t \in old \ sel : r.tasks[t].sprint_id = None
              /\ \A t \in DOMAIN tasks \ (sel \cup old) : r.tasks[t] = tasks[t]
              /\ \A o \in DOMAIN sprints \ {s} :
                    TaskIdsOf(r.tasks, o) = TaskIdsOf(tasks, o) \ sel
              /\ \A t \in DOMAIN tasks :
                    /\ r.tasks[t].project_id = tasks[t].project_id
                    /\ r.tasks[t].date_deadline = tasks[t].date_deadline
              /\ r.sprints = sprints

\* C12 witness: after a successful request, two sprints of one project hold
\* tasks, and selecting for the first a task of the second succeeds: that
\* task moves over, the task the first one held is released and the other
\* task of the second stays.
C12_Witness ==
    /\ outcome = "ok"
    /\ \E s \in DOMAIN sprints, o \in DOMAIN sprints :
       \E a \in DOMAIN tasks, b \in DOMAIN tasks, c \in DOMAIN tasks :
          LET r == InverseTaskSelectIds(sprints, tasks, <<s>>, {a})
          IN  /\ s # o /\ a # c
              /\ sprints[s].project_id = sprints[o].project_id
              /\ TaskIdsOf(tasks, s) = {b}
              /\ TaskIdsOf(tasks, o) = {a, c}
              /\ r.ok
              /\ TaskIdsOf(r.tasks, s) = {a}
              /\ TaskIdsOf(r.tasks, o) = {c}
              /\ r.tasks[b].sprint_id = None

\* C13: a write of a selection is rejected as a whole when the sprint has no
\* project (a sprint record taken with its project left empty) or when a
\* task to add has another project than the sprint, a task without project
\* counting as such; and a rejected write of a selection, to one sprint or
\* to several, changes the sprint reference of no task, neither of a task
\* it would add nor of one it would remove.
C13_SelectionRejectedAsAWhole ==
    /\ \A s \in DOMAIN sprints, sel \in SUBSET DOMAIN tasks :
          LET r == InverseTaskSelectIds(sprints, tasks, <<s>>, sel)
              no_project == [sprints EXCEPT ![s].project_id = None]
              r0 == InverseTaskSelectIds(no_project, tasks, <<s>>, sel)
          IN  /\ (\E t \in sel \ TaskIdsOf(tasks, s) :
                     tasks[t].project_id # sprints[s].project_id)
                    => (~r.ok /\ r.tasks = tasks)
              /\ ~r0.ok /\ r0.tasks = tasks
    /\ \A order \in Orders(DOMAIN sprints), sel \in SUBSET DOMAIN tasks :
          LET r == InverseTaskSelectIds(sprints, tasks, order, sel)
          IN  ~r.ok => \A t \in DOMAIN tasks :
                          r.tasks[t].sprint_id = tasks[t].sprint_id

\* C13 witness: the last request was rejected; a sprint holds one task, and
\* a selection that drops it and takes a task of the project of the sprint
\* together with a task of the other project is rejected, while the same
\* selection without the task of the other project is accepted.
C13_Witness ==
    /\ outcome = "rejected"
    /\ \E s \in DOMAIN sprints :
       \E a \in DOMAIN tasks, b \in DOMAIN tasks, c \in DOMAIN tasks :
          /\ TaskIdsOf(tasks, s) = {c}
          /\ tasks[a].project_id = sprints[s].project_id
          /\ tasks[b].project_id \in Projects \ {sprints[s].project_id}
          /\ ~InverseTaskSelectIds(sprints, tasks, <<s>>, {a, b}).ok
          /\ InverseTaskSelectIds(sprints, tasks, <<s>>, {a}).ok

\* The requests a caller can make in the current state, each as its result.
C14_Requests ==
    { SprintCreate(sprints, tasks, vals, today) :
        vals \in DefaultCreateVals \cup IncompleteCreateVals }
    \cup { SprintWrite(sprints, tasks, recs, vals, today) :
             recs \in Recordsets(DOMAIN sprints),
             vals \in BindWriteVals \cup ModeVals }
    \cup UNION { { ActionSetAuto(sprints, tasks, recs, today),
                   ActionSetPlanned(sprints, tasks, recs, today),
                   ActionSetActive(sprints, tasks, recs, today),
                   ActionSetDone(sprints, tasks, recs, today) } :
                 recs \in Recordsets(DOMAIN sprints) }
    \cup { TaskWrite(sprints, tasks, recs, vals) :
             recs \in Recordsets(DOMAIN tasks), vals \in TaskVals(sprints) }
    \cup { InverseTaskSelectIds(sprints, tasks, order, sel) :
             order \in Orders(DOMAIN sprints), sel \in SUBSET DOMAIN tasks }

C14_RejectedResultsKeepAll ==
    \A r \in C14_Requests : ~r.ok => (r.sprints = sprints /\ r.tasks = tasks)

C14_RejectedStepKeepsAll ==
    outcome' = "rejected" => (sprints' = sprints /\ tasks' = tasks)

Recomputed(sp, day) == [sp EXCEPT !.state = ComputeState(sp, day)]

\* C15: for every stored sprint and every day, recomputing the state a
\* second time, with the dates, state_mode and state_manual as they are,
\* gives the state of the first recomputation, and the recomputation gives
\* that same state whatever state was stored before.
C15_RecomputeIdempotent ==
    \A s \in DOMAIN sprints, day \in 1..MaxToday :
        LET once == Recomputed(sprints[s], day)
            twice == Recomputed(once, day)
        IN  /\ twice = once
            /\ \A st \in States :
                  Recomputed([sprints[s] EXCEPT !.state = st], day) = once

\* C15 witness: a sprint in auto mode whose stored state was left behind by
\* the calendar: the explicit recomputation is accepted and changes the
\* stored state, and recomputing again changes nothing.
C15_Witness ==
    \E s \in DOMAIN sprints :
        LET r1 == ExplicitComputeState(sprints, tasks, {s}, today)
            r2 == ExplicitComputeState(r1.sprints, r1.tasks, {s}, today)
        IN  /\ sprints[s].state_mode = "auto"
            /\ r1.ok
            /\ r1.sprints[s].state # sprints[s].state
            /\ r2.ok
            /\ r2.sprints = r1.sprints

\* C16: the edit-time defaults fill empty fields only.  Setting the start
\* date of the sprint in the form to d sets end_date to d + 14 when end_date
\* is empty and leaves end_date as it is otherwise; picking a sprint for the
\* task in the form sets the deadline to the end_date of that sprint when
\* the task has no deadline and leaves the deadline as it is otherwise.  No
\* other field of the record changes.
C16_DefaultsFillEmptyOnly ==
    \A f \in forms :
        /\ f.kind = "sprint" =>
              \A d \in FormDays :
                 LET set == [f.rec EXCEPT !.start_date = d]
                     after == OnchangeStartDateSetDefaultEnd(set)
                 IN  /\ f.rec.end_date = None => after.end_date = d + 14
                     /\ f.rec.end_date # None => after.end_date = f.rec.end_date
                     /\ [after EXCEPT !.end_date = None]
                           = [set EXCEPT !.end_date = None]
        /\ f.kind = "task" =>
              \A s \in DOMAIN sprints :
                 LET set == [f.rec EXCEPT !.sprint_id = s]
                     after == OnchangeSprintId(sprints, set)
                 IN  /\ f.rec.date_deadline = None
                           => after.date_deadline = sprints[s].end_date
                     /\ f.rec.date_deadline # None
                           => after.date_deadline = f.rec.date_deadline
                     /\ [after EXCEPT !.date_deadline = None]
                           = [set EXCEPT !.date_deadline = None]

\* C16 witness: the form of a task that has a deadline later than the end
\* date of a stored sprint; picking that sprint keeps the deadline, and
\* picking it with the deadline cleared gives the end date of the sprint.
C16_Witness ==
    \E f \in forms, s \in DOMAIN sprints :
        /\ f.kind = "task"
        /\ f.rec.date_deadline > sprints[s].end_date
        /\ f.rec.sprint_id = s
        /\ OnchangeSprintId(sprints, f.rec) = f.rec
        /\ OnchangeSprintId(sprints,
              [f.rec EXCEPT !.date_deadline = None]).date_deadline
              = sprints[s].end_date

\* C20: a defaulted value passes its validator.  When the form of a sprint
\* has no end date and the start date is set, the record with the defaulted
\* end date passes _check_duration_and_order; when the form of a task has no
\* deadline and a sprint is picked, the task with the defaulted deadline,
\* its project being that of the sprint, passes
\* _check_sprint_deadline_and_project.
C20_DefaultsPassValidators ==
    \A f \in forms :
        /\ (f.kind = "sprint" /\ f.rec.end_date = None) =>
              \A d \in FormDays :
                 LET after == OnchangeStartDateSetDefaultEnd(
                                 [f.rec EXCEPT !.start_date = d])
                 IN  /\ after.end_date # None
                     /\ ~RaisesDurationAndOrder(<<after>>, {1})
        /\ (f.kind = "task" /\ f.rec.date_deadline = None) =>
              \A s \in DOMAIN sprints :
                 LET after == OnchangeSprintId(sprints,
                                 [f.rec EXCEPT !.sprint_id = s])
                     saved == [after EXCEPT !.project_id = sprints[s].project_id]
                 IN  /\ after.date_deadline # None
                     /\ ~RaisesSprintDeadlineAndProject(sprints, <<saved>>, {1})

\* C20 witness: the form of a sprint whose end date is the default, 14 days
\* after its start date, and which the duration check accepts, while the
\* same start date with an end date one longest sprint later is refused.
C20_Witness ==
    \E f \in forms :
        /\ f.kind = "sprint"
        /\ f.rec.start_date # None
        /\ f.rec.end_date = f.rec.start_date + 14
        /\ OnchangeStartDateSetDefaultEnd([f.rec EXCEPT !.end_date = None]) = f.rec
        /\ ~RaisesDurationAndOrder(<<f.rec>>, {1})
        /\ RaisesDurationAndOrder(
              <<[f.rec EXCEPT !.end_date = f.rec.start_date + MaxDurationDays]>>,
              {1})

\* C17: the single-active check sees the recomputed state.  A write of
\* dates, state_mode or state_manual to a sprint that leaves it in auto mode
\* with today inside its dates is rejected, both tables unchanged, when
\* another sprint of its project is stored as active; and after a successful
\* write that takes an active sprint out of active, set_active on any other
\* sprint of the project whose end date has not passed succeeds and leaves
\* it active.
C17_ActiveCheckSeesRecomputedState ==
    \A s \in DOMAIN sprints, vals \in DateVals \cup ModeVals :
        LET after == Assign(sprints[s], vals)
            r == SprintWrite(sprints, tasks, {s}, vals, today)
        IN  /\ (/\ after.state_mode = "auto"
                /\ after.start_date # None /\ after.end_date # None
                /\ after.start_date <= today /\ today <= after.end_date
                /\ OtherActive(s))
               => RefusedUnchanged(r)
            /\ (/\ sprints[s].state = "active"
                /\ r.ok
                /\ r.sprints[s].state # "active")
               => \A o \in DOMAIN sprints \ {s} :
                     LET r2 == ActionSetActive(r.sprints, r.tasks, {o}, today)
                     IN  (/\ sprints[o].project_id = sprints[s].project_id
                          /\ sprints[o].end_date >= today)
                         => (r2.ok /\ r2.sprints[o].state = "active")

\* C17 witness: the last request was rejected; a planned sprint in auto mode
\* stands next to the active sprint of its project, and moving its start
\* date to today is rejected; once a write of the end date has taken the
\* other sprint out of active, the same write of the start date is accepted.
C17_Witness ==
    /\ outcome = "rejected"
    /\ \E s \in DOMAIN sprints, o \in DOMAIN sprints, b \in Days :
          LET freed == SprintWrite(sprints, tasks, {o}, [end_date |-> b], today)
          IN  /\ s # o
              /\ sprints[s].project_id = sprints[o].project_id
              /\ sprints[s].state_mode = "auto"
              /\ sprints[s].state = "planned"
              /\ sprints[o].state = "active"
              /\ ~SprintWrite(sprints, tasks, {s}, [start_date |-> today], today).ok
              /\ freed.ok
              /\ freed.sprints[o].state = "done"
              /\ SprintWrite(freed.sprints, freed.tasks, {s},
                             [start_date |-> today], today).ok

\* C18 (as claimed): once two transactions that ran action_set_active on
\* two different sprints of one project under read-committed isolation have
\* both ended, committed or aborted, at most one sprint of that project is
\* stored as active.
C18_OneActiveAfterConcurrentActivation ==
    \A a \in txns, b \in txns :
        (/\ a.id # b.id
         /\ a.pc \in {"committed", "aborted"}
         /\ b.pc \in {"committed", "aborted"}
         /\ a.sprint # b.sprint
         /\ sprints[a.sprint].project_id = sprints[b.sprint].project_id)
        => Cardinality(ActiveSprintsOf(sprints[a.sprint].project_id)) <= 1

\* C19: the project guard looks at the presence of project_id in the
\* values, not at a change.  A write whose values hold project_id, to a
\* recordset with a sprint that has a linked task or is stored as active or
\* done, is rejected also when the project given is the project the sprint
\* has, and nothing of the write is applied: both tables stay as they were,
\* the other fields of the values included.
C19_GuardOnPresence ==
    \A recs \in Recordsets(DOMAIN sprints), vals \in BindWriteVals :
        ("project_id" \in DOMAIN vals /\ \E s \in recs : ProjectLocked(s))
        => RefusedUnchanged(SprintWrite(sprints, tasks, recs, vals, today))

\* C19 witness: the last request was rejected; an active sprint without
\* tasks accepts the write of another end date alone, and the same write
\* carrying its own project as well is rejected.
C19_Witness ==
    /\ outcome = "rejected"
    /\ \E s \in DOMAIN sprints, b \in Days :
          LET alone == SprintWrite(sprints, tasks, {s}, [end_date |-> b], today)
              both == SprintWrite(sprints, tasks, {s},
                         [project_id |-> sprints[s].project_id, end_date |-> b],
                         today)
          IN  /\ sprints[s].state = "active"
              /\ TaskIdsOf(tasks, s) = {}
              /\ b # sprints[s].end_date
              /\ alone.ok
              /\ alone.sprints[s].end_date = b
              /\ ~both.ok

====
